---- MODULE Spec2Model ----
(***************************************************************************)
(* Model of src/app.py: the PyPI download dashboard.                       *)
(*                                                                         *)
(* Dates are day numbers counted from 2020-01-01 (day 0, a Wednesday), the *)
(* minimum of the start-date picker.  The clock `now` counts ticks of      *)
(* 1/TicksPerDay of a day.  A data frame is a sequence of rows (records).  *)
(***************************************************************************)
EXTENDS Integers, Sequences, FiniteSets

VARIABLES
    table,                    \* streamlit.streamlit.pypi_downloads: set of daily rows
    now,                      \* wall clock, in ticks
    cache,                    \* st.experimental_memo store of get_data_frame_from_raw_sql
    pc,                       \* position of the script run
    start_date,               \* main: start_date
    time_frame,               \* main: time_frame
    df_monthly,               \* main: df_monthly
    df_weekly,                \* main: df_weekly
    package_names,            \* main: package_names
    selected_data_streamlit,  \* main: selected_data_streamlit
    selected_data_all,        \* main: selected_data_all
    select_packages,          \* main: select_packages
    filtered_df,              \* main: filtered_df
    axis_scale,               \* plot_all_downloads: axis_scale
    rendered,                 \* charts handed to st.altair_chart in this run, in order
    executed,                 \* _connector.query calls of this run, per query
    failed_query              \* the query whose execution raised in this run, or "none"

vars == <<table, now, cache, pc, start_date, time_frame, df_monthly, df_weekly,
          package_names, selected_data_streamlit, selected_data_all,
          select_packages, filtered_df, axis_scale, rendered, executed, failed_query>>

-----------------------------------------------------------------------------
(* Bounds of the model *)

\* largest daily download count of one table row
MaxDownloads == 1

\* clock resolution: ticks per day
TicksPerDay == 2

\* number of ticks the clock may advance
MaxTicks == 2

-----------------------------------------------------------------------------
(* Calendar: 2020, day 0 = 2020-01-01 *)

SecondsPerDay == 24 * 60 * 60

\* first days of January .. May 2020 (2020 is a leap year)
MonthStarts == {0, 31, 60, 91, 121}

Max(S) == CHOOSE x \in S : \A y \in S : y <= x

\* date_trunc(date, MONTH)
MonthTrunc(d) == Max({m \in MonthStarts : m <= d})

\* date_trunc(date, WEEK): the Sunday on or before d (2020-01-05, day 4, is a Sunday)
WeekTrunc(d) == d - ((d + 3) % 7)

\* date_trunc(date, unit)
DateTrunc(d, unit) == IF unit = "MONTH" THEN MonthTrunc(d) ELSE WeekTrunc(d)

\* CURRENT_DATE() at clock value t
Today(t) == t \div TicksPerDay

\* astype("datetime64"): a date becomes the instant of its midnight, in seconds
ToDatetime64(d) == d * SecondsPerDay

-----------------------------------------------------------------------------
(* Projects *)

AllowList == {"pandas", "keras", "torch", "tensorflow", "numpy", "sci-kit learn"}

\* rank of a project name in ascending string order (ORDER BY ... project ASC)
ProjectRank(p) ==
    CASE p = "keras"         -> 1
      [] p = "numpy"         -> 2
      [] p = "pandas"        -> 3
      [] p = "requests"      -> 4
      [] p = "sci-kit learn" -> 5
      [] p = "tensorflow"    -> 6
      [] p = "torch"         -> 7

-----------------------------------------------------------------------------
(* The warehouse table: at most one row per (date, project) *)

Slots == { <<2, "pandas">>, <<33, "pandas">>, <<61, "pandas">>, <<62, "pandas">>,
           <<63, "pandas">>, <<33, "keras">>, <<62, "keras">>, <<62, "requests">> }

\* a table over the slots: f gives each slot its count 0..MaxDownloads, or -1 for no row
TableOf(f) ==
    { [date |-> s[1], project |-> s[2], downloads |-> f[s]] : s \in {x \in Slots : f[x] >= 0} }

Row(d, p, n) == [date |-> d, project |-> p, downloads |-> n]

\* the tables the script runs are explored over
AppTables ==
    { { Row(2, "pandas", 1), Row(33, "pandas", 1), Row(61, "pandas", 1), Row(62, "pandas", 1),
        Row(33, "keras", 1), Row(62, "keras", 0), Row(62, "requests", 1) },
      { Row(33, "pandas", 1), Row(62, "pandas", 1) },
      { Row(33, "keras", 1), Row(62, "keras", 1) } }

RECURSIVE SumDownloads(_)
SumDownloads(S) ==
    IF S = {} THEN 0
    ELSE LET r == CHOOSE x \in S : TRUE
         IN  r.downloads + SumDownloads(S \ {r})

-----------------------------------------------------------------------------
(* The two aggregation queries *)

\* faulty variant: ORDER BY 2,1 (project first)
RowBeforeProjectFirst(a, b) ==
    \/ ProjectRank(a.project) < ProjectRank(b.project)
    \/ a.project = b.project /\ a.date < b.date

\* ORDER BY 1,2 ASC
RowBefore(a, b) ==
    \/ a.date < b.date
    \/ a.date = b.date /\ ProjectRank(a.project) < ProjectRank(b.project)

RECURSIVE OrderBy(_)
OrderBy(S) ==
    IF S = {} THEN <<>>
    ELSE LET m == CHOOSE x \in S : \A y \in S \ {x} : RowBefore(x, y)
         IN  <<m>> \o OrderBy(S \ {m})

\* faulty variant: the start date is not applied
WhereAnyDate(tbl, sd) == { r \in tbl : r.project \in AllowList }

\* WHERE date >= '{start_date}' AND project IN (...)
Where(tbl, sd) == { r \in tbl : r.date >= sd /\ r.project \in AllowList }

\* SELECT trunc(date), project, SUM(downloads) ... GROUP BY 1,2
GroupBy(rows, unit) ==
    { [date      |-> k[1],
       project   |-> k[2],
       downloads |-> SumDownloads({r \in rows : DateTrunc(r.date, unit) = k[1]
                                                    /\ r.project = k[2]})] :
      k \in { <<DateTrunc(r.date, unit), r.project>> : r \in rows } }

\* faulty variant: the cut-off is one day short
HavingSixDays(groups, today) == { g \in groups : today - g.date >= 6 }

\* HAVING date_diff(CURRENT_DATE(), max(date_trunc(date, WEEK)), DAY) >= 7
Having(groups, today) == { g \in groups : today - g.date >= 7 }

MonthlyQuery(tbl, sd) == OrderBy(GroupBy(Where(tbl, sd), "MONTH"))

WeeklyQuery(tbl, sd, today) == OrderBy(Having(GroupBy(Where(tbl, sd), "WEEK"), today))

-----------------------------------------------------------------------------
(* Floating point values of the delta column *)

NaN == [k |-> "nan", n |-> 0, d |-> 1]
Inf == [k |-> "inf", n |-> 1, d |-> 1]

RECURSIVE Gcd(_, _)
Gcd(a, b) == IF b = 0 THEN a ELSE Gcd(b, a % b)

Abs(x) == IF x < 0 THEN -x ELSE x

\* the finite value n/d (d > 0), in lowest terms
Rat(n, d) ==
    LET g == Gcd(Abs(n), d)
    IN  [k |-> "num", n |-> n \div g, d |-> d \div g]

Zero == Rat(0, 1)

\* a / b for a downloads count a >= 0 and a shifted value b (NaN for a first row),
\* as float64 division: x / 0 is inf for x > 0 and NaN for x = 0, without an exception
FDiv(a, b) ==
    IF b = NaN THEN NaN
    ELSE IF b.n = 0 THEN (IF a = 0 THEN NaN ELSE Inf)
    ELSE Rat(a * b.d, b.n)

\* x - 1
FSubOne(x) == IF x.k = "num" THEN Rat(x.n - x.d, x.d) ELSE x

\* fillna(0)
FillNa(x) == IF x = NaN THEN Zero ELSE x

-----------------------------------------------------------------------------
(* Post-processing of a query result (lines 55-57, 79-81) *)

\* index of the previous row of row i's project group, 0 when i is the first
PrevInGroup(df, i) ==
    LET js == {j \in 1 .. (i - 1) : df[j].project = df[i].project}
    IN  IF js = {} THEN 0 ELSE Max(js)

\* groupby(["project"])["downloads"].shift()
Shifted(df, i) ==
    IF PrevInGroup(df, i) = 0 THEN NaN ELSE Rat(df[PrevInGroup(df, i)].downloads, 1)

\* groupby(["project"])["downloads"].pct_change(): downloads / shifted - 1
PctChange(df, i) == FSubOne(FDiv(df[i].downloads, Shifted(df, i)))

\* df["delta"] = pct_change().fillna(0); df["date"] = df["date"].astype("datetime64")
PostProcess(df) ==
    [i \in 1 .. Len(df) |->
        [date      |-> ToDatetime64(df[i].date),
         project   |-> df[i].project,
         downloads |-> df[i].downloads,
         delta     |-> FillNa(PctChange(df, i))]]

-----------------------------------------------------------------------------
(* The memoized query function *)

ProbeKey == <<"probe", 0>>
MonthlyKey(sd) == <<"monthly", sd>>
WeeklyKey(sd) == <<"weekly", sd>>

\* dates the picker is exercised with
StartDates == {0, 62}

Keys == {ProbeKey} \cup ({"monthly", "weekly"} \X StartDates)

NoEntry == [present |-> FALSE, stored |-> 0, df |-> <<>>]

\* ttl=24 * 60 * 60, in seconds
Ttl == 24 * 60 * 60

TickSeconds == SecondsPerDay \div TicksPerDay

\* faulty variant: entries never expire
HitNoExpiry(c, key, t) == c[key].present

\* a live entry: present and younger than the ttl
Hit(c, key, t) == c[key].present /\ (t - c[key].stored) * TickSeconds < Ttl

\* _connector.query(query).to_dataframe()
RunQuery(tbl, key, t) ==
    CASE key[1] = "probe"   -> << [f0_ |-> "foo"] >>
      [] key[1] = "monthly" -> MonthlyQuery(tbl, key[2])
      [] key[1] = "weekly"  -> WeeklyQuery(tbl, key[2], Today(t))

-----------------------------------------------------------------------------
(* State *)

Queries == {"probe", "monthly", "weekly"}

TimeFrames == {"weekly", "monthly"}

\* the last tick of 2020-03-07 (day 66): the week of 2020-03-01 turns 7 days old next tick
FirstTick == 67 * TicksPerDay - 1

LastTick == FirstTick + MaxTicks

InitRun ==
    /\ now = FirstTick
    /\ cache = [k \in Keys |-> NoEntry]
    /\ pc = "idle"
    /\ start_date = 0
    /\ time_frame = "weekly"
    /\ df_monthly = <<>>
    /\ df_weekly = <<>>
    /\ package_names = {}
    /\ selected_data_streamlit = <<>>
    /\ selected_data_all = <<>>
    /\ select_packages = {}
    /\ filtered_df = <<>>
    /\ axis_scale = "linear"
    /\ rendered = <<>>
    /\ executed = [q \in Queries |-> 0]
    /\ failed_query = "none"

Init == table \in AppTables /\ InitRun

locals == <<start_date, time_frame, df_monthly, df_weekly, package_names,
            selected_data_streamlit, selected_data_all, select_packages,
            filtered_df, axis_scale>>

-----------------------------------------------------------------------------
(* get_data_frame_from_raw_sql under st.experimental_memo *)

\* the call returns a data frame: served from the cache, or the query succeeded
Returns(key, ok) == Hit(cache, key, now) \/ ok

\* the data frame the call returns
Result(key) == IF Hit(cache, key, now) THEN cache[key].df ELSE RunQuery(table, key, now)

\* faulty variant: a failed execution is memoized as an empty result
StoreAfterMissKeepsFailure(key, ok) ==
    [cache EXCEPT ![key] = [present |-> TRUE, stored |-> now,
                            df |-> IF ok THEN RunQuery(table, key, now) ELSE <<>>]]

\* the cache after a miss: the result is stored; an exception stores nothing, and the
\* lookup has dropped an expired entry
StoreAfterMiss(key, ok) ==
    IF ok THEN [cache EXCEPT ![key] = [present |-> TRUE, stored |-> now,
                                        df |-> RunQuery(table, key, now)]]
    ELSE [cache EXCEPT ![key] = NoEntry]

\* effect of one call on the cache and on the connector
GetDataFrame(key, q, ok) ==
    IF Hit(cache, key, now)
    THEN /\ UNCHANGED <<cache, executed, failed_query>>
    ELSE /\ executed' = [executed EXCEPT ![q] = @ + 1]
         /\ cache' = StoreAfterMiss(key, ok)
         /\ failed_query' = IF ok THEN failed_query ELSE q

-----------------------------------------------------------------------------
(* The script run *)

\* a widget interaction (or the first page load) starts a run of the script from its
\* top: the locals of the previous run are gone, the cache and the clock are kept
Rerun ==
    /\ pc \in {"idle", "done", "stopped", "exception"}
    /\ pc' = "probe"
    /\ start_date' = 0
    /\ time_frame' = "weekly"
    /\ df_monthly' = <<>>
    /\ df_weekly' = <<>>
    /\ package_names' = {}
    /\ selected_data_streamlit' = <<>>
    /\ selected_data_all' = <<>>
    /\ select_packages' = {}
    /\ filtered_df' = <<>>
    /\ axis_scale' = "linear"
    /\ rendered' = <<>>
    /\ executed' = [q \in Queries |-> 0]
    /\ failed_query' = "none"
    /\ UNCHANGED <<table, now, cache>>

\* line 35
Probe ==
    /\ pc = "probe"
    /\ \E ok \in BOOLEAN :
          /\ GetDataFrame(ProbeKey, "probe", ok)
          /\ pc' = IF Returns(ProbeKey, ok) THEN "inputs" ELSE "exception"
    /\ UNCHANGED <<table, now, locals, rendered>>

\* lines 178-191: the date picker (2020-01-01 .. today) and the selectbox
Inputs ==
    /\ pc = "inputs"
    /\ \E sd \in {d \in StartDates : d <= Today(now)}, tf \in TimeFrames :
          /\ start_date' = sd
          /\ time_frame' = tf
    /\ pc' = "monthly"
    /\ UNCHANGED <<table, now, cache, df_monthly, df_weekly, package_names,
                   selected_data_streamlit, selected_data_all, select_packages,
                   filtered_df, axis_scale, rendered, executed, failed_query>>

\* line 195: monthly_downloads(start_date)
monthly_downloads ==
    /\ pc = "monthly"
    /\ \E ok \in BOOLEAN :
          /\ GetDataFrame(MonthlyKey(start_date), "monthly", ok)
          /\ IF Returns(MonthlyKey(start_date), ok)
             THEN /\ df_monthly' = PostProcess(Result(MonthlyKey(start_date)))
                  /\ pc' = "weekly"
             ELSE /\ pc' = "exception"
                  /\ UNCHANGED df_monthly
    /\ UNCHANGED <<table, now, start_date, time_frame, df_weekly, package_names,
                   selected_data_streamlit, selected_data_all, select_packages,
                   filtered_df, axis_scale, rendered>>

\* line 196: weekly_downloads(start_date)
weekly_downloads ==
    /\ pc = "weekly"
    /\ \E ok \in BOOLEAN :
          /\ GetDataFrame(WeeklyKey(start_date), "weekly", ok)
          /\ IF Returns(WeeklyKey(start_date), ok)
             THEN /\ df_weekly' = PostProcess(Result(WeeklyKey(start_date)))
                  /\ pc' = "trend"
             ELSE /\ pc' = "exception"
                  /\ UNCHANGED df_weekly
    /\ UNCHANGED <<table, now, start_date, time_frame, df_monthly, package_names,
                   selected_data_streamlit, selected_data_all, select_packages,
                   filtered_df, axis_scale, rendered>>

\* df[df["project"] == "pandas"]
PandasRows(df) == SelectSeq(df, LAMBDA r : r.project = "pandas")

\* df[df["project"].isin(sel)]
IsIn(df, sel) == SelectSeq(df, LAMBDA r : r.project \in sel)

\* df["project"].unique()
Unique(df) == { df[i].project : i \in 1 .. Len(df) }

\* faulty variant: the trend slice is taken from the other granularity
SelectedStreamlitSwapped(tf, dm, dw) ==
    IF tf = "weekly" THEN PandasRows(dm) ELSE PandasRows(dw)

\* lines 203-208
SelectedStreamlit(tf, dm, dw) == IF tf = "weekly" THEN PandasRows(dw) ELSE PandasRows(dm)

SelectedAll(tf, dm, dw) == IF tf = "weekly" THEN dw ELSE dm

\* lines 198-216: the slices, then the trend chart
Trend ==
    /\ pc = "trend"
    /\ package_names' = Unique(df_monthly)
    /\ selected_data_streamlit' = SelectedStreamlit(time_frame, df_monthly, df_weekly)
    /\ selected_data_all' = SelectedAll(time_frame, df_monthly, df_weekly)
    /\ rendered' = Append(rendered, "pandasamlit_downloads")
    /\ pc' = "select"
    /\ UNCHANGED <<table, now, cache, start_date, time_frame, df_monthly, df_weekly,
                   select_packages, filtered_df, axis_scale, executed, failed_query>>

\* default=["pandas", "keras"]
DefaultPackages == {"pandas", "keras"}

\* faulty variant: the run does not stop on an empty selection
AfterSelectNoStop(sel) == "compare"

\* lines 239-240: if not select_packages: st.stop()
AfterSelect(sel) == IF sel = {} THEN "stopped" ELSE "compare"

\* lines 227-240: st.multiselect raises when a default is not among the options;
\* an empty selection stops the run
Select ==
    /\ pc = "select"
    /\ IF DefaultPackages \subseteq package_names
       THEN \E sel \in SUBSET package_names :
              /\ select_packages' = sel
              /\ pc' = AfterSelect(sel)
       ELSE /\ pc' = "exception"
            /\ UNCHANGED select_packages
    /\ UNCHANGED <<table, now, cache, start_date, time_frame, df_monthly, df_weekly,
                   package_names, selected_data_streamlit, selected_data_all,
                   filtered_df, axis_scale, rendered, executed, failed_query>>

\* lines 242-246: the comparison chart (plot_all_downloads reads the log-scale checkbox)
Compare ==
    /\ pc = "compare"
    /\ filtered_df' = IsIn(selected_data_all, select_packages)
    /\ \E log \in BOOLEAN : axis_scale' = IF log THEN "log" ELSE "linear"
    /\ rendered' = Append(rendered, "plot_all_downloads")
    /\ pc' = "done"
    /\ UNCHANGED <<table, now, cache, start_date, time_frame, df_monthly, df_weekly,
                   package_names, selected_data_streamlit, selected_data_all,
                   select_packages, executed, failed_query>>

\* time passes
Tick ==
    /\ now < LastTick
    /\ now' = now + 1
    /\ UNCHANGED <<table, cache, pc, locals, rendered, executed, failed_query>>

Next ==
    \/ Rerun
    \/ Probe
    \/ Inputs
    \/ monthly_downloads
    \/ weekly_downloads
    \/ Trend
    \/ Select
    \/ Compare
    \/ Tick

Spec == Init /\ [][Next]_vars

-----------------------------------------------------------------------------
(* The derivation on its own: both functions applied to any table, with an empty cache *)

InitDerive ==
    /\ \E f \in [Slots -> (-1) .. MaxDownloads] : table = TableOf(f)
    /\ InitRun

Derive ==
    /\ pc = "idle"
    /\ \E sd \in {d \in StartDates : d <= Today(now)}, t \in {now, now + 1} :
          /\ start_date' = sd
          /\ now' = t
          /\ df_monthly' = PostProcess(MonthlyQuery(table, sd))
          /\ df_weekly' = PostProcess(WeeklyQuery(table, sd, Today(t)))
    /\ pc' = "trend"
    /\ UNCHANGED <<table, cache, time_frame, package_names, selected_data_streamlit,
                   selected_data_all, select_packages, filtered_df, axis_scale,
                   rendered, executed, failed_query>>

NextDerive == Derive

SpecDerive == InitDerive /\ [][NextDerive]_vars

-----------------------------------------------------------------------------
(* Properties *)

\* the calendar day of a datetime64 value
DayOf(ts) == ts \div SecondsPerDay

\* the rows of one project, in table order
Group(df, p) == SelectSeq(df, LAMBDA r : r.project = p)

Projects(df) == { df[i].project : i \in 1 .. Len(df) }

Derived == pc = "trend"

\* the delta the data model prescribes for row k of a project group g
ReferenceDelta(g, k) ==
    IF k = 1 THEN Zero
    ELSE IF g[k - 1].downloads = 0 THEN Zero
    ELSE Rat(g[k].downloads - g[k - 1].downloads, g[k - 1].downloads)

DeltaIsReference(df) ==
    \A p \in Projects(df) :
        \A k \in 1 .. Len(Group(df, p)) :
            Group(df, p)[k].delta = ReferenceDelta(Group(df, p), k)

\* C1: in every per-project group of a returned record set, taken in table order,
\* delta[0] = 0 and, for i > 0, delta[i] = 0 if downloads[i-1] = 0 and
\* (downloads[i] - downloads[i-1]) / downloads[i-1] otherwise.
C1_DeltaReference ==
    Derived => DeltaIsReference(df_monthly) /\ DeltaIsReference(df_weekly)

\* row order and row identity of a record set
StrictlyAscending(df) ==
    \A i, j \in 1 .. Len(df) :
        i < j => \/ df[i].date < df[j].date
                 \/ /\ df[i].date = df[j].date
                    /\ ProjectRank(df[i].project) < ProjectRank(df[j].project)

SameRowsInOrder(df, raw) ==
    /\ Len(df) = Len(raw)
    /\ \A i \in 1 .. Len(df) :
          /\ DayOf(df[i].date) = raw[i].date
          /\ df[i].project = raw[i].project
          /\ df[i].downloads = raw[i].downloads

\* C4: every returned record set is strictly ascending in (period_start, project), so
\* no two rows share (period_start, project), and the delta and date-normalization
\* steps keep the row order of the query result.
C4_StrictOrder ==
    Derived =>
        /\ StrictlyAscending(df_monthly)
        /\ StrictlyAscending(df_weekly)
        /\ SameRowsInOrder(df_monthly, MonthlyQuery(table, start_date))
        /\ SameRowsInOrder(df_weekly, WeeklyQuery(table, start_date, Today(now)))

\* a derivation with three or more monthly rows, two of them of the same month
C4_Witness ==
    /\ Derived
    /\ Len(df_monthly) >= 3
    /\ \E i \in 1 .. (Len(df_monthly) - 1) : df_monthly[i].date = df_monthly[i + 1].date
    /\ Len(df_weekly) >= 2

\* the bucket one month or one week before a bucket
PrevBucket(b, unit) ==
    IF unit = "MONTH" THEN Max({x \in MonthStarts : x < b}) ELSE b - 7

AgainstPreviousBucket(df, unit) ==
    \A p \in Projects(df) :
        \A k \in 2 .. Len(Group(df, p)) :
            LET g == Group(df, p)
            IN  /\ DayOf(g[k - 1].date) = PrevBucket(DayOf(g[k].date), unit)
                /\ g[k - 1].downloads # 0 =>
                      g[k].delta = Rat(g[k].downloads - g[k - 1].downloads,
                                       g[k - 1].downloads)

\* C6: for every record that is not the first of its project, delta is the fractional
\* change against the calendar bucket immediately before it (one week or one month
\* earlier) of the same project, never against an older bucket.
C6_PreviousBucket ==
    Derived =>
        /\ AgainstPreviousBucket(df_monthly, "MONTH")
        /\ AgainstPreviousBucket(df_weekly, "WEEK")

\* each record against the daily rows of the table
SumsDailyRows(df, unit) ==
    \A i \in 1 .. Len(df) :
        /\ df[i].downloads =
              SumDownloads({ r \in table : /\ r.project = df[i].project
                                           /\ r.date >= start_date
                                           /\ DateTrunc(r.date, unit) = DayOf(df[i].date) })
        /\ df[i].project \in AllowList
        /\ df[i].downloads >= 0

\* C9: the downloads of each returned record is the sum of the daily counts of its
\* project over exactly the daily rows dated on or after start_date that truncate to its
\* period_start; every returned project is in the allow-list; downloads is not negative.
C9_DownloadsAreSums ==
    Derived => SumsDailyRows(df_monthly, "MONTH") /\ SumsDailyRows(df_weekly, "WEEK")

\* a bucket summing two daily rows, with a daily row of the same bucket left out because
\* it is dated before start_date, and a row of a project outside the allow-list
C9_Witness ==
    /\ Derived
    /\ start_date = 62
    /\ \E r \in table : r.date = 61 /\ r.project = "pandas" /\ r.downloads > 0
    /\ \E r \in table : r.project \notin AllowList /\ r.downloads > 0
    /\ \E i \in 1 .. Len(df_monthly) :
          df_monthly[i].project = "pandas" /\ df_monthly[i].downloads = 2 * MaxDownloads
    /\ \E i \in 1 .. Len(df_weekly) :
          df_weekly[i].project = "pandas" /\ df_weekly[i].downloads = 2 * MaxDownloads

-----------------------------------------------------------------------------
(* Properties of the script run *)

Range(df) == { df[i] : i \in 1 .. Len(df) }

WeeklyFetched == pc \in {"trend", "select", "compare", "done", "stopped"}
                   \/ (pc = "exception" /\ rendered # <<>>)

\* C3: no record returned by weekly_downloads has a period_start less than 7 days before
\* the current date at the time its query was executed; this holds for every cached
\* result and for the record set a run uses, also when it was served from the cache.
C3_WeeklyCutoff ==
    /\ \A key \in Keys :
          key[1] = "weekly" /\ cache[key].present =>
              \A r \in Range(cache[key].df) : Today(cache[key].stored) - r.date >= 7
    /\ WeeklyFetched =>
          /\ cache[WeeklyKey(start_date)].present
          /\ \A r \in Range(df_weekly) :
                Today(cache[WeeklyKey(start_date)].stored) - DayOf(r.date) >= 7

\* a run served from the cache whose weekly record set holds a bucket that was exactly
\* 7 days old when the query was executed
C3_Witness ==
    /\ pc = "trend"
    /\ executed["weekly"] = 0
    /\ \E r \in Range(df_weekly) :
          Today(cache[WeeklyKey(start_date)].stored) - DayOf(r.date) = 7

\* C5: a run with an empty package selection renders the trend chart, never calls
\* plot_all_downloads and halts without an error; a run with a non-empty selection
\* renders the trend chart first and the comparison chart afterwards, each once.
C5_ChartOrder ==
    /\ pc = "stopped" =>
          /\ select_packages = {}
          /\ rendered = << "pandasamlit_downloads" >>
          /\ failed_query = "none"
    /\ pc = "compare" =>
          /\ select_packages # {}
          /\ rendered = << "pandasamlit_downloads" >>
    /\ pc = "done" =>
          /\ select_packages # {}
          /\ rendered = << "pandasamlit_downloads", "plot_all_downloads" >>
          /\ failed_query = "none"

\* a run halted by an empty selection after the trend chart
C5_Witness ==
    /\ pc = "stopped"
    /\ rendered = << "pandasamlit_downloads" >>
    /\ package_names # {}

\* the cache key of a query of the current run
KeyOf(q) ==
    CASE q = "probe"   -> ProbeKey
      [] q = "monthly" -> MonthlyKey(start_date)
      [] q = "weekly"  -> WeeklyKey(start_date)

\* C7: the record set a call returns with the cache enabled equals the one
\* the query yields at that same moment with the cache disabled.
C7_CacheTransparent ==
    /\ pc = "monthly" /\ Hit(cache, MonthlyKey(start_date), now) =>
          cache[MonthlyKey(start_date)].df = RunQuery(table, MonthlyKey(start_date), now)
    /\ pc = "weekly" /\ Hit(cache, WeeklyKey(start_date), now) =>
          cache[WeeklyKey(start_date)].df = RunQuery(table, WeeklyKey(start_date), now)

\* C7 (amended): a cached monthly record set equals the uncached one of the same moment;
\* a cached weekly record set equals the uncached one of a moment less than 24 hours
\* earlier, and of the same moment while the current date is that of its execution.
C7_CacheWithinTtl ==
    /\ pc = "monthly" /\ Hit(cache, MonthlyKey(start_date), now) =>
          cache[MonthlyKey(start_date)].df = RunQuery(table, MonthlyKey(start_date), now)
    /\ pc = "weekly" /\ Hit(cache, WeeklyKey(start_date), now) =>
          /\ \E t \in FirstTick .. now :
                /\ (now - t) * TickSeconds < Ttl
                /\ cache[WeeklyKey(start_date)].df
                      = RunQuery(table, WeeklyKey(start_date), t)
          /\ Today(cache[WeeklyKey(start_date)].stored) = Today(now) =>
                cache[WeeklyKey(start_date)].df
                   = RunQuery(table, WeeklyKey(start_date), now)

\* a weekly call about to be served a cached record set that the query would no longer
\* return, and a monthly call served from the cache on a later date
C7_Witness ==
    /\ pc = "weekly"
    /\ Hit(cache, WeeklyKey(start_date), now)
    /\ cache[WeeklyKey(start_date)].df # RunQuery(table, WeeklyKey(start_date), now)
    /\ executed["monthly"] = 0
    /\ Today(cache[MonthlyKey(start_date)].stored) < Today(now)

\* C8: when the monthly or the weekly query fails, the run ends in a failure state with
\* no chart rendered, the failed query was executed exactly once in the run, and the
\* cache holds no entry for it, so that the next call executes the query again.
C8_QueryFailure ==
    failed_query \in {"monthly", "weekly"} =>
        /\ pc = "exception"
        /\ rendered = <<>>
        /\ executed[failed_query] = 1
        /\ ~cache[KeyOf(failed_query)].present
        /\ ~Hit(cache, KeyOf(failed_query), now)

\* the weekly query failed in a run showing monthly data, after the monthly record set
\* was served from the cache
C8_Witness ==
    /\ pc = "exception"
    /\ failed_query = "weekly"
    /\ time_frame = "monthly"
    /\ executed["monthly"] = 0
    /\ Len(df_monthly) > 0

\* the derived table of the selected granularity
SourceTable == IF time_frame = "weekly" THEN df_weekly ELSE df_monthly

\* f keeps exactly the rows of df whose project is in ps, in the order of df
ExactSlice(f, df, ps) ==
    /\ Range(f) = { r \in Range(df) : r.project \in ps }
    /\ Len(f) = Cardinality({ i \in 1 .. Len(df) : df[i].project \in ps })
    /\ \A i, j \in 1 .. Len(f) :
          i < j => \E a, b \in 1 .. Len(df) : a < b /\ df[a] = f[i] /\ df[b] = f[j]

\* C10: the trend slice is exactly the rows of the selected granularity's table with
\* project = "pandas", and the comparison slice exactly those whose project is among the
\* selected packages, both in the table's order and with every column unchanged.
C10_Slices ==
    /\ rendered # <<>> =>
          /\ selected_data_all = SourceTable
          /\ ExactSlice(selected_data_streamlit, SourceTable, {"pandas"})
    /\ pc = "done" => ExactSlice(filtered_df, SourceTable, select_packages)

\* a weekly run whose comparison slice keeps some rows and drops others
C10_Witness ==
    /\ pc = "done"
    /\ time_frame = "weekly"
    /\ 0 < Len(filtered_df)
    /\ Len(filtered_df) < Len(selected_data_all)
    /\ 0 < Len(selected_data_streamlit)
    /\ Len(df_monthly) # Len(df_weekly)

====
